---- MODULE Spec2Model ----
(***************************************************************************)
(* Model of the shadow engine of qgis-marche-a-lombre                      *)
(* (src/shadow_calculator.py).                                             *)
(*                                                                         *)
(* Numbers.  All lengths (world coordinates, pixel sizes, heights,         *)
(* distances) are integers in decimetres, so the 1.7 m eye offset is 17.   *)
(* A non-negative real distance is carried as its square (dist_sq), which  *)
(* keeps sqrt(dx^2 + dy^2) * resolution exact.  An angle in (-pi/2, pi/2)  *)
(* is carried as its tangent h / sqrt(dsq) in a record [h, dsq]: arctan is *)
(* strictly increasing, so the order of the angles is the order of the     *)
(* tangents.  -inf is the record with dsq = 0.  An azimuth is carried as   *)
(* its sine and cosine in thousandths.  Floating-point rounding is not     *)
(* modelled.                                                               *)
(***************************************************************************)
EXTENDS Integers, Sequences, FiniteSets, TLC

\* ------------------------------------------------------------------ bounds
\* largest number of raster cells (both rasters together) that are not flat
MaxTall == 2
\* largest number of trail points of one calculate_shadows call
MaxPoints == 2
\* largest scan distance, in high-res pixels
MaxDistPx == 2
\* largest number of rows / columns of the raster a line is drawn on (SpecLine)
MaxDim == 3

\* h_viewer = trail_point.z + 1.7
EyeOffset == 17

\* ------------------------------------------------------------- arithmetic
Abs(a) == IF a < 0 THEN -a ELSE a

\* Python's int(a / b): the quotient truncated toward zero.
IntDiv(a, b) ==
    LET q == Abs(a) \div Abs(b)
    IN  IF (a < 0) = (b < 0) THEN q ELSE -q

\* ----------------------------------------------------------------- angles
NegInf == [h |-> -1, dsq |-> 0]

Tan(n, d) == [h |-> n, dsq |-> d * d]

\* a > b on angles (floats with -inf)
AngleGT(a, b) ==
    IF a.dsq = 0 THEN FALSE
    ELSE IF b.dsq = 0 THEN TRUE
    ELSE IF a.h >= 0 /\ b.h < 0 THEN TRUE
    ELSE IF a.h < 0 /\ b.h >= 0 THEN FALSE
    ELSE IF a.h >= 0 THEN a.h * a.h * b.dsq > b.h * b.h * a.dsq
    ELSE a.h * a.h * b.dsq < b.h * b.h * a.dsq

\* sun_elevation_rad < 0
AngleNegative(a) == a.dsq > 0 /\ a.h < 0

\* np.max of a non-empty array of angles
np_max(angles) ==
    CHOOSE a \in { angles[k] : k \in 1..Len(angles) } :
        \A k \in 1..Len(angles) : ~AngleGT(angles[k], a)

\* ------------------------------------------------------------- _to_pixel
\* gt is GDAL's geotransform (origin x, pixel width, 0, origin y, 0, pixel
\* height); Python's gt[k] is gt[k + 1] here.
to_pixel(x, y, gt) ==
    [col |-> IntDiv(x - gt[1], gt[2]), row |-> IntDiv(y - gt[4], gt[6])]

\* --------------------------------------------------- draw_bresenham_line
\* lines 49-60: the endpoint and the loop's constants
BresenhamSetup(x0, y0, max_dist_pixels, azimuth) ==
    LET x1 == IntDiv(1000 * x0 + max_dist_pixels * azimuth.sin, 1000)
        y1 == IntDiv(1000 * y0 - max_dist_pixels * azimuth.cos, 1000)
        dx == Abs(x1 - x0)
        dy == Abs(y1 - y0)
    IN  [x0 |-> x0, y0 |-> y0, x1 |-> x1, y1 |-> y1, dx |-> dx, dy |-> dy,
         sx |-> IF x0 < x1 THEN 1 ELSE -1,
         sy |-> IF y0 < y1 THEN 1 ELSE -1,
         D |-> dx - dy, line |-> <<>>, running |-> TRUE]

\* lines 63-83 with the error term D never updated
BresenhamIterStaleD(s, rows, cols) ==
    IF ~s.running THEN s
    ELSE IF ~(0 <= s.x0 /\ s.x0 < cols /\ 0 <= s.y0 /\ s.y0 < rows)
    THEN [s EXCEPT !.running = FALSE]
    ELSE LET line == Append(s.line, <<s.x0, s.y0>>)
         IN  IF s.x0 = s.x1 /\ s.y0 = s.y1
             THEN [s EXCEPT !.line = line, !.running = FALSE]
             ELSE LET D2 == 2 * s.D
                      stepx == D2 > -s.dy
                      stepy == D2 < s.dx
                  IN  [s EXCEPT !.line = line,
                                !.x0 = IF stepx THEN s.x0 + s.sx ELSE s.x0,
                                !.y0 = IF stepy THEN s.y0 + s.sy ELSE s.y0]

\* lines 63-83 with the boundary check one pixel too wide
BresenhamIterWide(s, rows, cols) ==
    IF ~s.running THEN s
    ELSE IF ~(0 <= s.x0 /\ s.x0 <= cols /\ 0 <= s.y0 /\ s.y0 <= rows)
    THEN [s EXCEPT !.running = FALSE]
    ELSE LET line == Append(s.line, <<s.x0, s.y0>>)
         IN  IF s.x0 = s.x1 /\ s.y0 = s.y1
             THEN [s EXCEPT !.line = line, !.running = FALSE]
             ELSE LET D2 == 2 * s.D
                      stepx == D2 > -s.dy
                      stepy == D2 < s.dx
                      Dx == IF stepx THEN s.D - s.dy ELSE s.D
                  IN  [s EXCEPT !.line = line,
                                !.x0 = IF stepx THEN s.x0 + s.sx ELSE s.x0,
                                !.y0 = IF stepy THEN s.y0 + s.sy ELSE s.y0,
                                !.D = IF stepy THEN Dx + s.dx ELSE Dx]

\* lines 63-83 adjusting y only when x was not adjusted
BresenhamIterOneAxis(s, rows, cols) ==
    IF ~s.running THEN s
    ELSE IF ~(0 <= s.x0 /\ s.x0 < cols /\ 0 <= s.y0 /\ s.y0 < rows)
    THEN [s EXCEPT !.running = FALSE]
    ELSE LET line == Append(s.line, <<s.x0, s.y0>>)
         IN  IF s.x0 = s.x1 /\ s.y0 = s.y1
             THEN [s EXCEPT !.line = line, !.running = FALSE]
             ELSE LET D2 == 2 * s.D
                      stepx == D2 > -s.dy
                      stepy == ~stepx /\ D2 < s.dx
                      Dx == IF stepx THEN s.D - s.dy ELSE s.D
                  IN  [s EXCEPT !.line = line,
                                !.x0 = IF stepx THEN s.x0 + s.sx ELSE s.x0,
                                !.y0 = IF stepy THEN s.y0 + s.sy ELSE s.y0,
                                !.D = IF stepy THEN Dx + s.dx ELSE Dx]

\* lines 63-83 testing for the endpoint before the pixel is appended
BresenhamIterEndFirst(s, rows, cols) ==
    IF ~s.running THEN s
    ELSE IF ~(0 <= s.x0 /\ s.x0 < cols /\ 0 <= s.y0 /\ s.y0 < rows)
    THEN [s EXCEPT !.running = FALSE]
    ELSE IF s.x0 = s.x1 /\ s.y0 = s.y1
    THEN [s EXCEPT !.running = FALSE]
    ELSE LET line == Append(s.line, <<s.x0, s.y0>>)
         IN  LET D2 == 2 * s.D
                      stepx == D2 > -s.dy
                      stepy == D2 < s.dx
                      Dx == IF stepx THEN s.D - s.dy ELSE s.D
                  IN  [s EXCEPT !.line = line,
                                !.x0 = IF stepx THEN s.x0 + s.sx ELSE s.x0,
                                !.y0 = IF stepy THEN s.y0 + s.sy ELSE s.y0,
                                !.D = IF stepy THEN Dx + s.dx ELSE Dx]

\* lines 63-83: one iteration of the while loop
BresenhamIter(s, rows, cols) ==
    IF ~s.running THEN s
    ELSE IF ~(0 <= s.x0 /\ s.x0 < cols /\ 0 <= s.y0 /\ s.y0 < rows)
    THEN [s EXCEPT !.running = FALSE]
    ELSE LET line == Append(s.line, <<s.x0, s.y0>>)
         IN  IF s.x0 = s.x1 /\ s.y0 = s.y1
             THEN [s EXCEPT !.line = line, !.running = FALSE]
             ELSE LET D2 == 2 * s.D
                      stepx == D2 > -s.dy
                      stepy == D2 < s.dx
                      Dx == IF stepx THEN s.D - s.dy ELSE s.D
                  IN  [s EXCEPT !.line = line,
                                !.x0 = IF stepx THEN s.x0 + s.sx ELSE s.x0,
                                !.y0 = IF stepy THEN s.y0 + s.sy ELSE s.y0,
                                !.D = IF stepy THEN Dx + s.dx ELSE Dx]

\* lines 62-85: the while loop, unrolled. An iteration after the break
\* changes nothing; the loop appends a pixel in every iteration but its
\* last, a line has at most max_dist_pixels + 1 pixels, and so the loop has
\* broken after eight iterations for every max_dist_pixels up to 6.
BresenhamIter2(s, rows, cols) ==
    BresenhamIter(BresenhamIter(s, rows, cols), rows, cols)

BresenhamIter4(s, rows, cols) ==
    BresenhamIter2(BresenhamIter2(s, rows, cols), rows, cols)

BresenhamIter8(s, rows, cols) ==
    BresenhamIter4(BresenhamIter4(s, rows, cols), rows, cols)

draw_bresenham_line(x0, y0, max_dist_pixels, azimuth, rows, cols) ==
    BresenhamIter8(BresenhamSetup(x0, y0, max_dist_pixels, azimuth),
                   rows, cols).line

\* ------------------------------------------------------------ calc_angle
\* line 114
HViewerNoZ(trail_point) == EyeOffset

HViewer(trail_point) == trail_point.z + EyeOffset

PixelDistSq(p, start_px) ==
    (p[1] - start_px[1]) * (p[1] - start_px[1])
        + (p[2] - start_px[2]) * (p[2] - start_px[2])

\* lines 105-108: the furthest distance, as its square, with the first
\* pixel of the line taken for the last
MaxDistSqFirst(index_list, start_px, resolution) ==
    PixelDistSq(index_list[1], start_px) * resolution * resolution

\* lines 105-108: max_dist, as its square
MaxDistSq(index_list, start_px, resolution) ==
    PixelDistSq(index_list[Len(index_list)], start_px) * resolution * resolution

\* line 130 keeping every pixel
DistMaskAll(dist_sq) == TRUE

\* line 130: dist_mask = dist_sq > 0
DistMask(dist_sq) == dist_sq > 0

\* line 141 with >= for >
DistFilterGE(dist_m_sq, min_dist_sq) == dist_m_sq >= min_dist_sq

\* line 141: dist_filter = dist_m > min_dist_m
DistFilter(dist_m_sq, min_dist_sq) == dist_m_sq > min_dist_sq

\* Returns the angles and the furthest distance (as its square); min_dist_sq
\* is the square of min_dist_m.
calc_angle(trail_point, index_list, start_px, mns_data, resolution, min_dist_sq) ==
    IF index_list = <<>> THEN [angles |-> <<>>, max_dist_sq |-> 0]
    ELSE
    LET max_dist_sq == MaxDistSq(index_list, start_px, resolution)
        h_viewer == HViewer(trail_point)
        Height(p) == mns_data[p[2]][p[1]]
        \* mask = h_obstacles > h_viewer
        rel == SelectSeq(index_list, LAMBDA p : Height(p) > h_viewer)
        \* dist_mask = dist_sq > 0
        near == SelectSeq(rel, LAMBDA p : DistMask(PixelDistSq(p, start_px)))
        DistSq(p) == PixelDistSq(p, start_px) * resolution * resolution
        \* dist_filter = dist_m > min_dist_m, applied if min_dist_m > 0
        far == IF min_dist_sq > 0
               THEN SelectSeq(near, LAMBDA p : DistFilter(DistSq(p), min_dist_sq))
               ELSE near
    IN  [angles |-> [k \in 1..Len(far) |->
                        [h |-> Height(far[k]) - h_viewer, dsq |-> DistSq(far[k])]],
         max_dist_sq |-> max_dist_sq]

\* ------------------------------------------------------------------ state
VARIABLES
    \* ShadowCalculator.__init__: the two rasters
    high_gt, high_res, high_data, high_rows, high_cols,
    low_gt, low_res, low_data, low_rows, low_cols,
    \* calculate_shadows: its argument, its locals and its position
    max_dist_m, high_max_px, low_max_px, results,
    tp, sun_elevation_rad, max_angle, covered_dist,
    pc,
    \* angles_rad after the high-res and after the low-res calc_angle call
    angles_high, angles_low,
    \* the number of raster cells read for the current point (line 115)
    cells_read,
    \* where the flag of the current point was appended (line 173, 199 or 227-229)
    path,
    \* draw_bresenham_line on its own: its arguments and its loop state
    bres_args, bres,
    \* Trail: its fields, the arguments its methods are called with, and the
    \* number of calls made after process_trail
    trail_points, speed, break_index, break_duration, adjust_for_slope,
    start_time, buffered, calls,
    \* trail_point.py: the outcome of the import of lines 4-9 and the calls
    \* of calc_solar_pos made so far
    HAS_PVLIB, solar_calls,
    \* MNSDownloader.download_dual_quality_mns: its inputs, its position
    \* (which read_tif, which candidate, which tile), the downloader's
    \* capabilities cache, the temporary directory, the feedback object, the
    \* requests given to the network manager, and what was returned
    dl_args, phase, cand, tile, candidates, caps_cache, temp_dir,
    canceled, cancel_seen, requests, late_requests, high_result, returned

selfVars == <<high_gt, high_res, high_data, high_rows, high_cols,
              low_gt, low_res, low_data, low_rows, low_cols>>
callVars == <<max_dist_m, high_max_px, low_max_px>>
pointVars == <<tp, sun_elevation_rad, max_angle, covered_dist,
               angles_high, angles_low, cells_read, path>>
lineVars == <<bres_args, bres>>
trailVars == <<trail_points, speed, break_index, break_duration,
               adjust_for_slope, start_time, buffered, calls>>
solarVars == <<HAS_PVLIB, solar_calls>>
dlVars == <<dl_args, phase, cand, tile, candidates, caps_cache, temp_dir,
            canceled, cancel_seen, requests, late_requests, high_result,
            returned>>
vars == <<selfVars, callVars, pointVars, results, pc, lineVars, trailVars,
         solarVars, dlVars>>

\* ----------------------------------------------------------------- inputs
\* heights of the raster cells that are not flat ground (height 0): an
\* object of 5.7 m
TallHeights == {57}

\* rasters of the given shape with the cells of `tall` raised
RasterWith(rows, cols, tall, a) ==
    [r \in 0..(rows - 1) |-> [c \in 0..(cols - 1) |->
        IF <<r, c>> \in tall THEN a[<<r, c>>] ELSE 0]]

Cells(rows, cols) == (0..(rows - 1)) \X (0..(cols - 1))

Rasters(rows, cols, k) ==
    UNION { { RasterWith(rows, cols, tall, a) : a \in [tall -> TallHeights] } :
            tall \in { t \in SUBSET Cells(rows, cols) : Cardinality(t) <= k } }

TallCount(data) ==
    Cardinality({ rc \in (DOMAIN data) \X (DOMAIN data[0]) : data[rc[1]][rc[2]] # 0 })

\* north-up geotransforms: a 3 x 3 raster of 2 m pixels and a 2 x 2 raster
\* of 4 m pixels around it
HighGT == <<0, 20, 0, 60, 0, -20>>
LowGT == <<-20, 40, 0, 80, 0, -40>>
HighShape == [rows |-> 3, cols |-> 3]
LowShape == [rows |-> 2, cols |-> 2]

\* the pairs of rasters (high-res, low-res) with at most MaxTall raised cells
RasterPairs ==
    { pair \in Rasters(HighShape.rows, HighShape.cols, MaxTall)
                  \X Rasters(LowShape.rows, LowShape.cols, MaxTall) :
        TallCount(pair[1]) + TallCount(pair[2]) <= MaxTall }

\* azimuths, clockwise from north: sine and cosine in thousandths
Az(s, c) == [sin |-> s, cos |-> c]
Azimuths ==
    { Az(0, 1000), Az(500, 866), Az(707, 707), Az(866, 500),
      Az(1000, 0), Az(866, -500), Az(707, -707), Az(0, -1000),
      Az(-500, -866), Az(-707, -707), Az(-1000, 0), Az(-707, 707) }

\* solar positions (elevation, azimuth)
SolarPositions ==
    { <<Tan(-1, 10), Az(0, 1000)>>,
      <<Tan(0, 1), Az(1000, 0)>>,
      <<Tan(1, 1), Az(866, 500)>>,
      <<Tan(2, 1), Az(0, -1000)>>,
      <<Tan(1, 1), Az(-707, -707)>>,
      <<Tan(1, 2), Az(-1000, 0)>> }

\* the first point of a trail: inside the high-res raster, less than one
\* pixel outside it, and further out; on the ground, and with the eye
\* (z + 1.7 m) exactly as high as the raised cells
TrailXs == { -30, -10, 30, 70 }
TrailYs == { -10, 30, 70, 90 }
TrailZs == { 0, 40 }
TrailPoints ==
    [x : TrailXs, y : TrailYs, z : TrailZs, solar_pos : SolarPositions]

\* the trail goes on one high-res pixel to the east
NextTrailPoint(p) == [p EXCEPT !.x = p.x + 20]

NoPoint == [x |-> 0, y |-> 0, z |-> 0, solar_pos |-> <<NegInf, Az(0, 1000)>>]
NoLine == [x0 |-> 0, y0 |-> 0, max_dist_pixels |-> 0, azimuth |-> Az(0, 1000),
           rows |-> 0, cols |-> 0]
NoLoop == [BresenhamSetup(0, 0, 0, Az(0, 1000)) EXCEPT !.running = FALSE]
FlatRaster(rows, cols) == RasterWith(rows, cols, {}, <<>>)

\* ---------------------------------------------------- calculate_shadows
InBounds(px, rows, cols) ==
    0 <= px.col /\ px.col < cols /\ 0 <= px.row /\ px.row < rows

\* lines 183-193 / 207-217: the scan of one raster for point p. `scanned`
\* is the boundary check of line 183 / 207, `covered` the square of the
\* furthest distance calc_angle returns.
ScanFrom(p, px, indices, data, res, min_dist_sq) ==
    [scanned |-> TRUE, indices |-> indices,
     angles |-> calc_angle(p, indices, <<px.col, px.row>>, data, res,
                           min_dist_sq).angles,
     covered |-> calc_angle(p, indices, <<px.col, px.row>>, data, res,
                            min_dist_sq).max_dist_sq]

Scan(p, gt, rows, cols, data, res, max_px, min_dist_sq) ==
    IF InBounds(to_pixel(p.x, p.y, gt), rows, cols)
    THEN CHOOSE r \in
             { ScanFrom(p, px, indices, data, res, min_dist_sq) :
                 <<px, indices>> \in
                   { <<q, draw_bresenham_line(q.col, q.row, max_px,
                                              p.solar_pos[2], rows, cols)>> :
                       q \in { to_pixel(p.x, p.y, gt) } } } : TRUE
    ELSE [scanned |-> FALSE, indices |-> <<>>, angles |-> <<>>, covered |-> 0]

\* line 172: the night check
IsNightNever(sun) == FALSE

IsNight(sun) == AngleNegative(sun)

\* lines 196-198: the high-res scan decides the point
EarlyExitAny(angles, sun) == Len(angles) > 0

EarlyExit(angles, sun) ==
    Len(angles) > 0 /\ AngleGT(np_max(angles), sun)

\* lines 220-223
MaxAngleAfterLow(angles, max_angle_so_far) ==
    IF Len(angles) > 0 /\ AngleGT(np_max(angles), max_angle_so_far)
    THEN np_max(angles) ELSE max_angle_so_far

\* lines 226-229: the final check
FinalFlagGE(max_angle_so_far, sun) ==
    IF max_angle_so_far.dsq > 0 /\ ~AngleGT(sun, max_angle_so_far) THEN 1 ELSE 0

FinalFlag(max_angle_so_far, sun) ==
    IF AngleGT(max_angle_so_far, sun) THEN 1 ELSE 0

\* lines 171-229 without the resets of lines 176-177: max_angle and
\* covered_dist start from the values the previous point left
LoopBodyNoReset(p, hs, ls, old_max_angle, old_covered) ==
    LET sun == p.solar_pos[1]
        after_high == IF Len(hs.angles) > 0 THEN np_max(hs.angles)
                      ELSE old_max_angle
        covered == IF hs.scanned THEN hs.covered ELSE old_covered
        final_angle == MaxAngleAfterLow(ls.angles, after_high)
    IN  IF IsNight(sun)
        THEN [flag |-> 1, path |-> "night", max_angle |-> old_max_angle,
              covered_dist |-> old_covered, angles_high |-> <<>>,
              angles_low |-> <<>>, cells_read |-> 0]
        ELSE IF EarlyExit(hs.angles, sun)
        THEN [flag |-> 1, path |-> "early", max_angle |-> old_max_angle,
              covered_dist |-> covered, angles_high |-> hs.angles,
              angles_low |-> <<>>, cells_read |-> Len(hs.indices)]
        ELSE [flag |-> FinalFlag(final_angle, sun), path |-> "final",
              max_angle |-> final_angle, covered_dist |-> covered,
              angles_high |-> hs.angles, angles_low |-> ls.angles,
              cells_read |-> Len(hs.indices) + Len(ls.indices)]

\* lines 171-229: the body of the for loop for point p, as the values it
\* leaves in its locals, given the high-res scan hs and the low-res scan ls
\* (made only if the high-res scan does not decide). old_* are the locals
\* before the iteration, which the night path leaves alone.
LoopBody(p, hs, ls, old_max_angle, old_covered) ==
    LET sun == p.solar_pos[1]
        after_high == IF Len(hs.angles) > 0 THEN np_max(hs.angles) ELSE NegInf
        final_angle == MaxAngleAfterLow(ls.angles, after_high)
    IN  IF IsNight(sun)
        THEN [flag |-> 1, path |-> "night", max_angle |-> old_max_angle,
              covered_dist |-> old_covered, angles_high |-> <<>>,
              angles_low |-> <<>>, cells_read |-> 0]
        ELSE IF EarlyExit(hs.angles, sun)
        THEN [flag |-> 1, path |-> "early", max_angle |-> NegInf,
              covered_dist |-> hs.covered, angles_high |-> hs.angles,
              angles_low |-> <<>>, cells_read |-> Len(hs.indices)]
        ELSE [flag |-> FinalFlag(final_angle, sun), path |-> "final",
              max_angle |-> final_angle, covered_dist |-> hs.covered,
              angles_high |-> hs.angles, angles_low |-> ls.angles,
              cells_read |-> Len(hs.indices) + Len(ls.indices)]

\* the loop body for point p with scan distances hmax and lmax (in pixels)
EvalPoint(p, hmax, lmax, old_max_angle, old_covered) ==
    CHOOSE r \in UNION {
        { LoopBody(p, hs, ls, old_max_angle, old_covered) :
            ls \in { Scan(p, low_gt, low_rows, low_cols, low_data, low_res,
                          lmax, hs.covered) } } :
            hs \in { Scan(p, high_gt, high_rows, high_cols, high_data,
                          high_res, hmax, 0) } } : TRUE

\* MNSDownloader.__init__ (mns_downloader.py lines 32-45): nothing has been
\* downloaded
NoDownload ==
    /\ dl_args = [cands |-> 1, high_tiles |-> 1, low_tiles |-> 1]
    /\ phase = "high"
    /\ cand = 1
    /\ tile = 0
    /\ candidates = 0
    /\ caps_cache = FALSE
    /\ temp_dir = FALSE
    /\ canceled = FALSE
    /\ cancel_seen = FALSE
    /\ requests = 0
    /\ late_requests = 0
    /\ high_result = "none"
    /\ returned = "none"

\* trail_point.py: calc_solar_pos has not been called
NoSolar ==
    /\ HAS_PVLIB = FALSE
    /\ solar_calls = <<>>

\* Trail.__init__ (trail.py lines 26-38): no trail has been processed
NoTrail ==
    /\ trail_points = <<>>
    /\ speed = 1
    /\ break_index = -1
    /\ break_duration = 0
    /\ adjust_for_slope = FALSE
    /\ start_time = 0
    /\ buffered = FALSE
    /\ calls = 0

\* ------------------------------------------------------------------- Init
\* ShadowCalculator.__init__ and the entry of calculate_shadows (lines
\* 163-166)
Init ==
    /\ high_gt = HighGT
    /\ high_res = high_gt[2]
    /\ \E pair \in RasterPairs : high_data = pair[1] /\ low_data = pair[2]
    /\ high_rows = HighShape.rows
    /\ high_cols = HighShape.cols
    /\ low_gt = LowGT
    /\ low_res = low_gt[2]
    /\ low_rows = LowShape.rows
    /\ low_cols = LowShape.cols
    /\ max_dist_m \in { k * high_res : k \in 1..MaxDistPx }
    /\ high_max_px = IntDiv(max_dist_m, high_res)
    /\ low_max_px = IntDiv(max_dist_m, low_res)
    /\ results = <<>>
    /\ tp = NoPoint
    /\ sun_elevation_rad = NegInf
    /\ max_angle = NegInf
    /\ covered_dist = 0
    /\ angles_high = <<>>
    /\ angles_low = <<>>
    /\ cells_read = 0
    /\ path = "none"
    /\ pc = "loop"
    /\ bres_args = NoLine
    /\ bres = NoLoop
    /\ NoTrail
    /\ NoSolar
    /\ NoDownload

\* lines 168-229 with the flag inserted at the head of results
ProcessPointPrepend(p) ==
    /\ pc = "loop"
    /\ Len(results) < MaxPoints
    /\ \E r \in { EvalPoint(p, high_max_px, low_max_px, max_angle, covered_dist) } :
           /\ tp' = p
           /\ sun_elevation_rad' = p.solar_pos[1]
           /\ max_angle' = r.max_angle
           /\ covered_dist' = r.covered_dist
           /\ angles_high' = r.angles_high
           /\ angles_low' = r.angles_low
           /\ cells_read' = r.cells_read
           /\ path' = r.path
           /\ results' = <<r.flag>> \o results
    /\ pc' = "loop"
    /\ UNCHANGED <<selfVars, callVars, lineVars, trailVars, solarVars, dlVars>>

\* lines 168-229 with the high-res raster overwritten by the scan
ProcessPointWrites(p) ==
    /\ pc = "loop"
    /\ Len(results) < MaxPoints
    /\ \E r \in { EvalPoint(p, high_max_px, low_max_px, max_angle, covered_dist) } :
           /\ tp' = p
           /\ sun_elevation_rad' = p.solar_pos[1]
           /\ max_angle' = r.max_angle
           /\ covered_dist' = r.covered_dist
           /\ angles_high' = r.angles_high
           /\ angles_low' = r.angles_low
           /\ cells_read' = r.cells_read
           /\ path' = r.path
           /\ results' = Append(results, r.flag)
    /\ pc' = "loop"
    /\ high_data' = FlatRaster(high_rows, high_cols)
    /\ UNCHANGED <<high_gt, high_res, high_rows, high_cols,
                   low_gt, low_res, low_data, low_rows, low_cols>>
    /\ UNCHANGED <<callVars, lineVars, trailVars, solarVars, dlVars>>

\* lines 168-229: one iteration of the for loop, for the next trail point p
ProcessPoint(p) ==
    /\ pc = "loop"
    /\ Len(results) < MaxPoints
    /\ \E r \in { EvalPoint(p, high_max_px, low_max_px, max_angle, covered_dist) } :
           /\ tp' = p
           /\ sun_elevation_rad' = p.solar_pos[1]
           /\ max_angle' = r.max_angle
           /\ covered_dist' = r.covered_dist
           /\ angles_high' = r.angles_high
           /\ angles_low' = r.angles_low
           /\ cells_read' = r.cells_read
           /\ path' = r.path
           /\ results' = Append(results, r.flag)
    /\ pc' = "loop"
    /\ UNCHANGED <<selfVars, callVars, lineVars, trailVars, solarVars, dlVars>>

\* the first point of the trail
FirstPoint ==
    /\ results = <<>>
    /\ \E p \in TrailPoints : ProcessPoint(p)

\* a later point of the trail
LaterPoint ==
    /\ results # <<>>
    /\ ProcessPoint(NextTrailPoint(tp))

\* line 231: the trail is exhausted
Return ==
    /\ pc = "loop"
    /\ pc' = "done"
    /\ UNCHANGED <<selfVars, callVars, lineVars, pointVars, results, trailVars, solarVars, dlVars>>

Next ==
    \/ FirstPoint
    \/ LaterPoint
    \/ Return

Spec == Init /\ [][Next]_vars

\* ------------------------------------------- draw_bresenham_line alone
\* a call of draw_bresenham_line with any start pixel, in or out of the
\* raster
LineArgs ==
    [x0 : -1..MaxDim, y0 : -1..MaxDim, max_dist_pixels : 0..(MaxDim + 1),
     azimuth : Azimuths, rows : 1..MaxDim, cols : 1..MaxDim]

InitLine ==
    /\ high_gt = HighGT
    /\ high_res = high_gt[2]
    /\ high_data = FlatRaster(HighShape.rows, HighShape.cols)
    /\ high_rows = HighShape.rows
    /\ high_cols = HighShape.cols
    /\ low_gt = LowGT
    /\ low_res = low_gt[2]
    /\ low_data = FlatRaster(LowShape.rows, LowShape.cols)
    /\ low_rows = LowShape.rows
    /\ low_cols = LowShape.cols
    /\ max_dist_m = 0
    /\ high_max_px = 0
    /\ low_max_px = 0
    /\ results = <<>>
    /\ tp = NoPoint
    /\ sun_elevation_rad = NegInf
    /\ max_angle = NegInf
    /\ covered_dist = 0
    /\ angles_high = <<>>
    /\ angles_low = <<>>
    /\ cells_read = 0
    /\ path = "none"
    /\ pc = "line"
    /\ bres_args \in LineArgs
    /\ bres = BresenhamSetup(bres_args.x0, bres_args.y0,
                             bres_args.max_dist_pixels, bres_args.azimuth)
    /\ NoTrail
    /\ NoSolar
    /\ NoDownload

\* lines 63-83: one iteration of the while loop
LineIter ==
    /\ pc = "line"
    /\ bres.running
    /\ bres' = BresenhamIter(bres, bres_args.rows, bres_args.cols)
    /\ UNCHANGED <<selfVars, callVars, pointVars, results, pc, bres_args,
                   trailVars, solarVars, dlVars>>

\* line 85: return line
LineReturn ==
    /\ pc = "line"
    /\ ~bres.running
    /\ pc' = "line_done"
    /\ UNCHANGED <<selfVars, callVars, pointVars, results, lineVars,
                   trailVars, solarVars, dlVars>>

NextLine ==
    \/ LineIter
    \/ LineReturn

SpecLine == InitLine /\ [][NextLine]_vars

\* the interpreter keeps running the loop and the return that follows it
FairSpecLine == SpecLine /\ WF_vars(NextLine)

\* ------------------------------------------------ rasters with nodata
\* nodata_val = -9999.0 (in decimetres)
NodataVal == -99990
\* data < -1000 (in decimetres)
NodataThreshold == -10000

\* mns_downloader.py line 471 left out: values are stored as served
RemapNone(v) == v

\* mns_downloader.py line 471: data[data < -1000] = nodata_val
Remap(v) == IF v < NodataThreshold THEN NodataVal ELSE v

\* values a served terrain raster may hold: ground, the lowest value line
\* 471 keeps, the nodata marker, and a value just below it
RawValues == { 0, NodataThreshold, NodataVal, NodataVal - 20 }

\* trail.py lines 487-492: the z a trail point gets from the stored terrain
\* value; a nodata cell makes the sample fail and z is 0.0
SampleZ(stored) == IF stored = NodataVal THEN 0 ELSE stored

\* the z values a trail point can carry
NodataZs == { SampleZ(Remap(raw)) : raw \in RawValues }

\* surface rasters without data: every cell holds the nodata marker, the
\* cells of `lower` a value below it
NodataRasters(rows, cols, k) ==
    { [r \in 0..(rows - 1) |-> [c \in 0..(cols - 1) |->
          IF <<r, c>> \in lower THEN NodataVal - 20 ELSE NodataVal]] :
        lower \in { t \in SUBSET Cells(rows, cols) : Cardinality(t) <= k } }

LowerCount(data) ==
    Cardinality({ rc \in (DOMAIN data) \X (DOMAIN data[0]) :
                    data[rc[1]][rc[2]] < NodataVal })

NodataRasterPairs ==
    { pair \in NodataRasters(HighShape.rows, HighShape.cols, MaxTall)
                  \X NodataRasters(LowShape.rows, LowShape.cols, MaxTall) :
        LowerCount(pair[1]) + LowerCount(pair[2]) <= MaxTall }

\* daytime points at every z a trail point can carry
NodataPoints ==
    [x : TrailXs, y : TrailYs, z : NodataZs,
     solar_pos : { sp \in SolarPositions : ~AngleNegative(sp[1]) }]

InitNodata ==
    /\ high_gt = HighGT
    /\ high_res = high_gt[2]
    /\ \E pair \in NodataRasterPairs : high_data = pair[1] /\ low_data = pair[2]
    /\ high_rows = HighShape.rows
    /\ high_cols = HighShape.cols
    /\ low_gt = LowGT
    /\ low_res = low_gt[2]
    /\ low_rows = LowShape.rows
    /\ low_cols = LowShape.cols
    /\ max_dist_m \in { k * high_res : k \in 1..MaxDistPx }
    /\ high_max_px = IntDiv(max_dist_m, high_res)
    /\ low_max_px = IntDiv(max_dist_m, low_res)
    /\ results = <<>>
    /\ tp = NoPoint
    /\ sun_elevation_rad = NegInf
    /\ max_angle = NegInf
    /\ covered_dist = 0
    /\ angles_high = <<>>
    /\ angles_low = <<>>
    /\ cells_read = 0
    /\ path = "none"
    /\ pc = "loop"
    /\ bres_args = NoLine
    /\ bres = NoLoop
    /\ NoTrail
    /\ NoSolar
    /\ NoDownload

\* calculate_shadows for a trail of one point
NodataPoint ==
    /\ results = <<>>
    /\ \E p \in NodataPoints : ProcessPoint(p)

NextNodata ==
    \/ NodataPoint
    \/ Return

SpecNodata == InitNodata /\ [][NextNodata]_vars

\* ------------------------------------------------------------------ Trail
\* src/trail.py and src/trail_point.py. A trail runs along the x axis; times
\* are seconds, lengths decimetres, speeds decimetres per second.
\* largest number of Center points of a trail
MaxCenters == 3
\* largest number of Left / Right points lost to a failed transform
MaxDrops == 1
\* largest number of calls after process_trail
MaxCalls == 2

\* trail_point.py lines 22-90: the solar position of a place is a function
\* of the time: the course of the sun, one position per half minute
DayCourse ==
    << <<Tan(1, 2), Az(1000, 0)>>, <<Tan(1, 1), Az(866, -500)>>,
       <<Tan(2, 1), Az(0, -1000)>>, <<Tan(1, 1), Az(-707, -707)>>,
       <<Tan(0, 1), Az(-1000, 0)>>, <<Tan(-1, 10), Az(0, 1000)>> >>

calc_solar_pos(dt) == DayCourse[((dt \div 30) % Len(DayCourse)) + 1]

\* trail_point.py lines 13-20. `pair` is not a field of the code: it is the
\* index of the Center point the point was made at (a Center point's own
\* index).
TrailPoint(x, z, datetime, pair) ==
    [x |-> x, z |-> z, datetime |-> datetime,
     solar_pos |-> calc_solar_pos(datetime),
     trail_type |-> "Center", pair |-> pair]

\* inputs of process_trail
SegLens == { 0, 21 }
Speeds == { 1, 3 }
PicnicDurations == { 0, 1 }
StartTimes == { 0, 20 }
\* terrain heights sample_elevation finds
TerrainZs == { 0, 21 }

\* trail.py lines 233-260: the Center points of a line whose consecutive
\* vertices are segs apart
CenterPoints(segs, slope, start, spd) ==
    LET n == Len(segs) + 1
        total_dist[k \in 1..n] ==
            IF k = 1 THEN 0 ELSE total_dist[k - 1] + segs[k - 1]
    IN  [k \in 1..n |->
            TrailPoint(total_dist[k], 0,
                       IF slope THEN start
                       ELSE start + IntDiv(total_dist[k], spd),
                       k - 1)]

\* trail.py lines 285-290: the break moves the points from closest_idx on
ApplyBreak(center_points, closest_idx, secs) ==
    [k \in 1..Len(center_points) |->
        IF k - 1 >= closest_idx
        THEN [center_points[k] EXCEPT
                 !.datetime = @ + secs,
                 !.solar_pos = calc_solar_pos(center_points[k].datetime + secs)]
        ELSE center_points[k]]

\* trail.py lines 304-369: the Left or the Right points; the points of
\* `dropped` are lost to a failed transform
SidePoints(center_points, side, dropped) ==
    LET n == Len(center_points)
        kept == SelectSeq([k \in 1..n |-> k - 1],
                          LAMBDA i : <<side, i>> \notin dropped)
    IN  IF n < 2 THEN <<>>
        ELSE [j \in 1..Len(kept) |->
                [TrailPoint(center_points[kept[j] + 1].x, 0,
                            center_points[kept[j] + 1].datetime, kept[j])
                 EXCEPT !.trail_type = side,
                        !.solar_pos = center_points[kept[j] + 1].solar_pos]]

Drops(n, buffer) ==
    IF buffer
    THEN { d \in SUBSET ({"Left", "Right"} \X (0..(n - 1))) :
             Cardinality(d) <= MaxDrops }
    ELSE { {} }

\* trail.py lines 433-437: Tobler's factor clamped to [0.3, 1.5], as a
\* fraction: exp(-0.175) = 0.84 on the flat, 0.3 on the slopes of this
\* model (a rise or fall of 21 over a length of 21)
ToblerFactor(delta_z, dist_horizontal) ==
    IF delta_z = 0 THEN [n |-> 21, d |-> 25] ELSE [n |-> 3, d |-> 10]

\* total_time is carried in 63rds of a second, which keeps every
\* segment_time of this model exact
TimeScale == 63

\* trail.py lines 406-412
CenterCount(tps, buf) == IF buf THEN Len(tps) \div 3 ELSE Len(tps)

\* trail.py lines 414-463, for center_count > 0
calculate_times_with_slope(tps, start, buf, spd, slope_on, brk, brk_secs) ==
    LET center_count == CenterCount(tps, buf)
        SegTime(k) ==
            LET dist == Abs(tps[k].x - tps[k - 1].x)
                f == IF slope_on /\ dist > 0
                     THEN ToblerFactor(tps[k].z - tps[k - 1].z, dist)
                     ELSE [n |-> 1, d |-> 1]
            IN  (dist * TimeScale * f.d) \div (spd * f.n)
        total_time[k \in 1..center_count] ==
            IF k = 1 THEN 0
            ELSE total_time[k - 1] + SegTime(k)
                 + (IF k - 1 = brk THEN TimeScale * brk_secs ELSE 0)
        Calc(k) ==
            IF k = 1 THEN [tps[1] EXCEPT !.datetime = start]
            ELSE [tps[k] EXCEPT
                     !.datetime = start + (total_time[k] \div TimeScale),
                     !.solar_pos =
                         calc_solar_pos(start + (total_time[k] \div TimeScale))]
        Copy(k, i) ==
            [tps[k] EXCEPT !.datetime = Calc(i).datetime,
                           !.solar_pos = Calc(i).solar_pos]
    IN  [k \in 1..Len(tps) |->
            IF k <= center_count THEN Calc(k)
            ELSE IF ~buf THEN tps[k]
            ELSE IF k <= 2 * center_count THEN Copy(k, k - center_count)
            ELSE IF k - 2 * center_count <= center_count
                 THEN Copy(k, k - 2 * center_count)
            ELSE tps[k]]

\* the calculator takes no part in the trail's life
CalculatorIdle ==
    /\ high_gt = HighGT
    /\ high_res = high_gt[2]
    /\ high_data = FlatRaster(HighShape.rows, HighShape.cols)
    /\ high_rows = HighShape.rows
    /\ high_cols = HighShape.cols
    /\ low_gt = LowGT
    /\ low_res = low_gt[2]
    /\ low_data = FlatRaster(LowShape.rows, LowShape.cols)
    /\ low_rows = LowShape.rows
    /\ low_cols = LowShape.cols
    /\ max_dist_m = 0
    /\ high_max_px = 0
    /\ low_max_px = 0
    /\ results = <<>>
    /\ tp = NoPoint
    /\ sun_elevation_rad = NegInf
    /\ max_angle = NegInf
    /\ covered_dist = 0
    /\ angles_high = <<>>
    /\ angles_low = <<>>
    /\ cells_read = 0
    /\ path = "none"
    /\ bres_args = NoLine
    /\ bres = NoLoop

\* Trail.__init__ (trail.py lines 26-38); start_time is the departure every
\* later call is given
InitTrail ==
    /\ CalculatorIdle
    /\ pc = "trail_new"
    /\ trail_points = <<>>
    /\ speed \in Speeds
    /\ break_index = -1
    /\ break_duration = 0
    /\ adjust_for_slope = FALSE
    /\ start_time \in StartTimes
    /\ buffered = FALSE
    /\ calls = 0
    /\ NoSolar
    /\ NoDownload

\* trail.py lines 118-385: process_trail on one line of n vertices, with a
\* break at closest_idx (-1: no break point, or one too far away)
ProcessTrail ==
    /\ pc = "trail_new"
    /\ \E n \in 1..MaxCenters, slope \in BOOLEAN, buffer \in BOOLEAN,
          picnic_duration \in PicnicDurations :
         \E segs \in [1..(n - 1) -> SegLens], closest_idx \in -1..(n - 1),
            dropped \in Drops(n, buffer) :
           \E center_points \in
                { IF closest_idx >= 0
                  THEN ApplyBreak(CenterPoints(segs, slope, start_time, speed),
                                  closest_idx, 60 * picnic_duration)
                  ELSE CenterPoints(segs, slope, start_time, speed) } :
              /\ trail_points' =
                    IF buffer
                    THEN center_points
                           \o SidePoints(center_points, "Left", dropped)
                           \o SidePoints(center_points, "Right", dropped)
                    ELSE center_points
              /\ adjust_for_slope' = slope
              /\ buffered' = buffer
              /\ break_index' = closest_idx
              /\ break_duration' =
                    IF closest_idx >= 0 THEN 60 * picnic_duration ELSE 0
    /\ pc' = "trail_ready"
    /\ UNCHANGED <<speed, start_time, calls>>
    /\ UNCHANGED <<selfVars, callVars, pointVars, results, lineVars, solarVars, dlVars>>

\* trail.py lines 387-465: calculate_times_with_slope; with no Center point
\* to calculate, line 416 raises IndexError
CalculateTimesWithSlope ==
    /\ pc = "trail_ready"
    /\ calls < MaxCalls
    /\ calls' = calls + 1
    /\ IF CenterCount(trail_points, buffered) = 0
       THEN pc' = "trail_error" /\ UNCHANGED trail_points
       ELSE /\ pc' = pc
            /\ trail_points' =
                  calculate_times_with_slope(trail_points, start_time, buffered,
                                             speed, adjust_for_slope,
                                             break_index, break_duration)
    /\ UNCHANGED <<speed, break_index, break_duration, adjust_for_slope,
                   start_time, buffered>>
    /\ UNCHANGED <<selfVars, callVars, pointVars, results, lineVars, solarVars, dlVars>>

\* trail.py lines 467-498: sample_elevation; the terrain gives every point
\* the height of its place along the trail
SampleElevation ==
    /\ pc = "trail_ready"
    /\ calls < MaxCalls
    /\ calls' = calls + 1
    /\ \E terrain \in [0..(MaxCenters - 1) -> TerrainZs] :
         \E sampled \in
              { [k \in 1..Len(trail_points) |->
                   [trail_points[k] EXCEPT !.z = terrain[trail_points[k].pair]]] } :
            IF ~adjust_for_slope
            THEN pc' = pc /\ trail_points' = sampled
            ELSE IF CenterCount(sampled, buffered) = 0
            THEN pc' = "trail_error" /\ trail_points' = sampled
            ELSE /\ pc' = pc
                 /\ trail_points' =
                       calculate_times_with_slope(sampled, start_time, buffered,
                                                  speed, adjust_for_slope,
                                                  break_index, break_duration)
    /\ UNCHANGED <<speed, break_index, break_duration, adjust_for_slope,
                   start_time, buffered>>
    /\ UNCHANGED <<selfVars, callVars, pointVars, results, lineVars, solarVars, dlVars>>

NextTrail ==
    \/ ProcessTrail
    \/ SampleElevation
    \/ CalculateTimesWithSlope

SpecTrail == InitTrail /\ [][NextTrail]_vars

\* ------------------------------------------------------- calc_solar_pos
\* src/trail_point.py, the choice between pvlib and the built-in formula.
\* largest number of calc_solar_pos calls of a run
MaxSolarCalls == 3

\* the times calc_solar_pos is called with
SolarTimes == { 0, 30, 60, 90 }

\* what pvlib.solarposition.get_solarposition (line 38) and the reading of
\* its result (lines 39-40) can do: return, or raise an exception
PvlibOutcomes == { "ok", "ValueError", "KeyError" }

\* the position pvlib finds: the formula's, with a slightly higher
\* elevation (the two methods agree to a fraction of a degree)
PvlibPos(dt) ==
    << [h |-> 10 * calc_solar_pos(dt)[1].h + 1,
        dsq |-> 100 * calc_solar_pos(dt)[1].dsq],
       calc_solar_pos(dt)[2] >>

NoPos == << NegInf, Az(0, 0) >>

\* trail_point.py line 42: the handler names one exception class only
CatchesValueError(exc) == exc = "ValueError"

\* trail_point.py line 42: `except Exception` handles every exception the
\* backend call raises
Catches(exc) == exc # "ok"

\* trail_point.py lines 36-90: one call of calc_solar_pos(dt) when the
\* backend call ends with `outcome`
SolarCall(has_pvlib, dt, outcome) ==
    IF has_pvlib /\ outcome = "ok"
    THEN [dt |-> dt, outcome |-> outcome, backend |-> TRUE, formula |-> FALSE,
          returned |-> PvlibPos(dt), raised |-> "none"]
    ELSE IF has_pvlib /\ ~Catches(outcome)
    THEN [dt |-> dt, outcome |-> outcome, backend |-> TRUE, formula |-> FALSE,
          returned |-> NoPos, raised |-> outcome]
    ELSE [dt |-> dt, outcome |-> IF has_pvlib THEN outcome ELSE "none",
          backend |-> has_pvlib, formula |-> TRUE,
          returned |-> calc_solar_pos(dt), raised |-> "none"]

\* trail_point.py lines 4-9: the import of pvlib succeeds or fails, once
InitSolar ==
    /\ CalculatorIdle
    /\ NoTrail
    /\ pc = "solar"
    /\ HAS_PVLIB \in BOOLEAN
    /\ solar_calls = <<>>
    /\ NoDownload

\* trail_point.py lines 22-90: one call of calc_solar_pos
CalcSolarPos ==
    /\ pc = "solar"
    /\ Len(solar_calls) < MaxSolarCalls
    /\ \E dt \in SolarTimes, outcome \in PvlibOutcomes :
         \E call \in { SolarCall(HAS_PVLIB, dt, outcome) } :
            /\ solar_calls' = Append(solar_calls, call)
            /\ pc' = IF call.raised = "none" THEN pc ELSE "solar_raised"
    /\ UNCHANGED HAS_PVLIB
    /\ UNCHANGED <<selfVars, callVars, pointVars, results, lineVars, trailVars,
                   dlVars>>

NextSolar == CalcSolarPos

SpecSolar == InitSolar /\ [][NextSolar]_vars

\* ------------------------------------------------------ malformed rasters
\* ShadowCalculator.__init__ and the head of calculate_shadows on rasters
\* that may be malformed.
\* GDAL's geotransform of a file that carries none
DefaultGT == <<0, 10, 0, 0, 0, 10>>

\* the geotransforms a file can carry: well formed, pixel width zero, none
HighGTs == { HighGT, [HighGT EXCEPT ![2] = 0], DefaultGT }
LowGTs == { LowGT, [LowGT EXCEPT ![2] = 0] }

\* the shapes a band can have: well formed, or without rows or columns
HighShapes == [rows : { 0, HighShape.rows }, cols : { 0, HighShape.cols }]
LowShapes == [rows : { 0, LowShape.rows }, cols : { 0, LowShape.cols }]

\* shadow_calculator.py lines 12-27: the constructor stores what GDAL
\* returns, whatever it is
InitMalformed ==
    /\ high_gt \in HighGTs
    /\ high_res = high_gt[2]
    /\ \E shape \in HighShapes :
          /\ high_rows = shape.rows
          /\ high_cols = shape.cols
          /\ high_data = FlatRaster(shape.rows, shape.cols)
    /\ low_gt \in LowGTs
    /\ low_res = low_gt[2]
    /\ \E shape \in LowShapes :
          /\ low_rows = shape.rows
          /\ low_cols = shape.cols
          /\ low_data = FlatRaster(shape.rows, shape.cols)
    /\ max_dist_m \in { k * HighGT[2] : k \in 1..MaxDistPx }
    /\ high_max_px = 0
    /\ low_max_px = 0
    /\ results = <<>>
    /\ tp = NoPoint
    /\ sun_elevation_rad = NegInf
    /\ max_angle = NegInf
    /\ covered_dist = 0
    /\ angles_high = <<>>
    /\ angles_low = <<>>
    /\ cells_read = 0
    /\ path = "none"
    /\ pc = "constructed"
    /\ bres_args = NoLine
    /\ bres = NoLoop
    /\ NoTrail
    /\ NoSolar
    /\ NoDownload

\* shadow_calculator.py lines 163-166: the head of calculate_shadows; the
\* division by a pixel width of 0.0 raises ZeroDivisionError
CalculateShadowsHead ==
    /\ pc = "constructed"
    /\ IF high_res = 0 \/ low_res = 0
       THEN /\ pc' = "ZeroDivisionError"
            /\ UNCHANGED <<high_max_px, low_max_px>>
       ELSE /\ pc' = "loop"
            /\ high_max_px' = IntDiv(max_dist_m, high_res)
            /\ low_max_px' = IntDiv(max_dist_m, low_res)
    /\ UNCHANGED max_dist_m
    /\ UNCHANGED <<selfVars, pointVars, results, lineVars, trailVars, solarVars, dlVars>>

NextMalformed ==
    \/ CalculateShadowsHead
    \/ FirstPoint
    \/ LaterPoint
    \/ Return

SpecMalformed == InitMalformed /\ [][NextMalformed]_vars

\* ------------------------------------------------------------ downloader
\* src/mns_downloader.py: download_dual_quality_mns and what it calls.
\* largest number of layer candidates of a read_tif call
MaxCandidates == 2
\* largest number of tiles of a raster (1: a single download, lines 303-304)
MaxTiles == 2

selfDlVars == <<dl_args, caps_cache>>
feedbackVars == <<canceled, cancel_seen>>
requestVars == <<requests, late_requests>>

\* lines 414 and 70: a request is given to the network manager; it is late
\* when an isCanceled() of lines 341 or 417 has already answered True
IssueRequest ==
    /\ requests' = requests + 1
    /\ late_requests' = late_requests + (IF cancel_seen THEN 1 ELSE 0)

\* lines 294-303: the number of tiles of the raster read_tif is reading
Tiles == IF phase = "high" THEN dl_args.high_tiles ELSE dl_args.low_tiles

\* read_tif returns `result` (lines 314, 318): line 221 drops the result of
\* the high-resolution read_tif and goes on, line 239 returns the result
\* of the low-resolution one
EndReadTif(result) ==
    IF phase = "high"
    THEN /\ high_result' = result
         /\ phase' = "low"
         /\ pc' = "dl_caps"
         /\ UNCHANGED returned
    ELSE /\ returned' = result
         /\ pc' = "dl_done"
         /\ UNCHANGED <<high_result, phase>>

\* lines 310-318: after the attempt on a candidate: a downloaded and valid
\* raster ends read_tif, anything else goes on to the next candidate
AfterAttempt(valid) ==
    IF valid
    THEN EndReadTif("True") /\ UNCHANGED cand
    ELSE IF cand < candidates
    THEN /\ cand' = cand + 1
         /\ pc' = "dl_cand"
         /\ UNCHANGED <<high_result, phase, returned>>
    ELSE EndReadTif("False") /\ UNCHANGED cand

\* download_dual_quality_mns is called (line 205); the high-resolution
\* read_tif is about to look for its candidates
InitDownload ==
    /\ CalculatorIdle
    /\ NoTrail
    /\ NoSolar
    /\ pc = "dl_caps"
    /\ dl_args \in [cands : 1..MaxCandidates, high_tiles : 1..MaxTiles,
                    low_tiles : 1..MaxTiles]
    /\ phase = "high"
    /\ cand = 1
    /\ tile = 0
    /\ candidates = 0
    /\ caps_cache = FALSE
    /\ temp_dir = FALSE
    /\ canceled = FALSE
    /\ cancel_seen = FALSE
    /\ requests = 0
    /\ late_requests = 0
    /\ high_result = "none"
    /\ returned = "none"

\* the user cancels: feedback.isCanceled() answers True from now on
Cancel ==
    /\ pc \in { "dl_caps", "dl_cand", "dl_tile" }
    /\ ~canceled
    /\ canceled' = TRUE
    /\ UNCHANGED <<dl_args, phase, cand, tile, candidates, caps_cache,
                   temp_dir, cancel_seen, requests, late_requests,
                   high_result, returned>>
    /\ UNCHANGED <<selfVars, callVars, pointVars, results, pc, lineVars,
                   trailVars, solarVars>>

\* lines 280-291 with lines 53-81 and 95-99: the candidates of this read_tif;
\* without cached capabilities they are requested, and when that fails the
\* one default layer is the candidate
GetLayerCandidates ==
    /\ pc = "dl_caps"
    /\ IF caps_cache
       THEN /\ candidates' = dl_args.cands
            /\ UNCHANGED <<caps_cache, requestVars>>
       ELSE /\ IssueRequest
            /\ \E ok \in BOOLEAN :
                  /\ caps_cache' = ok
                  /\ candidates' = IF ok THEN dl_args.cands ELSE 1
    /\ cand' = 1
    /\ pc' = "dl_cand"
    /\ UNCHANGED <<dl_args, phase, tile, temp_dir, feedbackVars, high_result,
                   returned>>
    /\ UNCHANGED <<selfVars, callVars, pointVars, results, lineVars,
                   trailVars, solarVars>>

\* lines 303-304 and 391-458, then 310-318: one candidate downloaded as a
\* single tile; the request is issued (line 414) before isCanceled() is
\* asked (line 417)
DownloadSingleTile ==
    /\ pc = "dl_cand"
    /\ Tiles = 1
    /\ IssueRequest
    /\ IF canceled
       THEN cancel_seen' = TRUE /\ AfterAttempt(FALSE)
       ELSE /\ UNCHANGED cancel_seen
            /\ \E valid \in BOOLEAN : AfterAttempt(valid)
    /\ UNCHANGED <<selfDlVars, tile, candidates, temp_dir, canceled>>
    /\ UNCHANGED <<selfVars, callVars, pointVars, results, lineVars,
                   trailVars, solarVars>>

\* lines 305-308 and 324-332: the tiled download of one candidate begins
BeginTiled ==
    /\ pc = "dl_cand"
    /\ Tiles > 1
    /\ temp_dir' = TRUE
    /\ tile' = 0
    /\ pc' = "dl_tile"
    /\ UNCHANGED <<selfDlVars, phase, cand, candidates, feedbackVars,
                   requestVars, high_result, returned>>
    /\ UNCHANGED <<selfVars, callVars, pointVars, results, lineVars,
                   trailVars, solarVars>>

\* lines 340-389, then 310-318: one iteration of the tile loop; after the
\* last tile the tiles are merged and the result is validated
DownloadTile ==
    /\ pc = "dl_tile"
    /\ IF canceled
       THEN /\ cancel_seen' = TRUE
            /\ temp_dir' = FALSE
            /\ AfterAttempt(FALSE)
            /\ UNCHANGED <<tile, requestVars>>
       ELSE /\ IssueRequest
            /\ UNCHANGED cancel_seen
            /\ \E ok \in BOOLEAN :
                  IF ~ok
                  THEN /\ temp_dir' = FALSE
                       /\ AfterAttempt(FALSE)
                       /\ UNCHANGED tile
                  ELSE IF tile + 1 < Tiles
                  THEN /\ tile' = tile + 1
                       /\ UNCHANGED <<temp_dir, pc, cand, phase, high_result,
                                      returned>>
                  ELSE /\ temp_dir' = FALSE
                       /\ UNCHANGED tile
                       /\ \E valid \in BOOLEAN : AfterAttempt(valid)
    /\ UNCHANGED <<selfDlVars, candidates, canceled>>
    /\ UNCHANGED <<selfVars, callVars, pointVars, results, lineVars,
                   trailVars, solarVars>>

NextDownload ==
    \/ Cancel
    \/ GetLayerCandidates
    \/ DownloadSingleTile
    \/ BeginTiled
    \/ DownloadTile

SpecDownload == InitDownload /\ [][NextDownload]_vars

\* ----------------------------------------------------------------- claims
Last(seq) == seq[Len(seq)]

\* tp is the point the loop handled last and Last(results) is its flag
Decided == pc = "loop" /\ results # <<>>
Daytime == ~AngleNegative(tp.solar_pos[1])

\* C1: a point whose solar elevation is negative is flagged 1 (Shady),
\* whatever the rasters hold and wherever the point lies.
C1_NightIsShady ==
    (Decided /\ AngleNegative(tp.solar_pos[1])) => Last(results) = 1

\* a night point inside the high-res raster over flat terrain
C1_Witness ==
    /\ Decided
    /\ AngleNegative(tp.solar_pos[1])
    /\ TallCount(high_data) + TallCount(low_data) = 0
    /\ InBounds(to_pixel(tp.x, tp.y, high_gt), high_rows, high_cols)
    /\ Last(results) = 1

\* the candidate angles both scans retained for the point
Candidates ==
    { angles_high[k] : k \in 1..Len(angles_high) }
        \cup { angles_low[k] : k \in 1..Len(angles_low) }

\* C2: a daytime point that reaches the final check is flagged 1 iff some
\* retained candidate angle of the two scans (hence their maximum) is
\* strictly greater than the solar elevation, and 0 otherwise.
C2_FinalRule ==
    (Decided /\ path = "final") =>
        Last(results) =
            IF \E a \in Candidates : AngleGT(a, tp.solar_pos[1]) THEN 1 ELSE 0

\* the maximum candidate angle equals the solar elevation: Sunny
C2_Witness ==
    /\ Decided
    /\ path = "final"
    /\ Last(results) = 0
    /\ \E a \in Candidates :
          ~AngleGT(a, tp.solar_pos[1]) /\ ~AngleGT(tp.solar_pos[1], a)

\* the reference evaluation: scan both rasters, then Shady iff some
\* candidate angle exceeds the solar elevation
RefFlag(p, hmax, lmax) ==
    CHOOSE f \in UNION {
        { IF \/ \E k \in 1..Len(hs.angles) : AngleGT(hs.angles[k], p.solar_pos[1])
             \/ \E k \in 1..Len(ls.angles) : AngleGT(ls.angles[k], p.solar_pos[1])
          THEN 1 ELSE 0 :
            ls \in { Scan(p, low_gt, low_rows, low_cols, low_data, low_res,
                          lmax, hs.covered) } } :
            hs \in { Scan(p, high_gt, high_rows, high_cols, high_data,
                          high_res, hmax, 0) } } : TRUE

\* C3: for a daytime point the flag, early exit or not, is the flag of the
\* reference evaluation that always scans both rasters.
C3_EarlyExitPreserves ==
    (Decided /\ Daytime) =>
        Last(results) = RefFlag(tp, high_max_px, low_max_px)

\* an early exit where the skipped low-res scan has a candidate too
C3_Witness ==
    /\ Decided
    /\ path = "early"
    /\ Len(Scan(tp, low_gt, low_rows, low_cols, low_data, low_res,
                low_max_px, covered_dist).angles) > 0

AllBelowEye(p) ==
    /\ \A rc \in Cells(high_rows, high_cols) :
          high_data[rc[1]][rc[2]] <= p.z + EyeOffset
    /\ \A rc \in Cells(low_rows, low_cols) :
          low_data[rc[1]][rc[2]] <= p.z + EyeOffset

\* C4: if no cell of either raster is above the viewer's eye level, a
\* daytime point is flagged 0 (Sunny).
C4_BelowEyeIsSunny ==
    (Decided /\ Daytime /\ AllBelowEye(tp)) => Last(results) = 0

\* raised cells exactly at the eye level of a viewer at z = 4 m, and cells read
C4_Witness ==
    /\ Decided
    /\ Daytime
    /\ AllBelowEye(tp)
    /\ TallCount(high_data) > 0
    /\ TallCount(low_data) > 0
    /\ cells_read > 1
    /\ Last(results) = 0

\* the point lies outside the georeferenced extent of the raster
OutsideExtent(p, gt, rows, cols) ==
    ~(/\ gt[1] <= p.x /\ p.x < gt[1] + cols * gt[2]
      /\ gt[4] + rows * gt[6] < p.y /\ p.y <= gt[4])

\* C5: a daytime point outside the extent of both rasters is flagged 0
\* (Sunny) and no raster cell is read for it.
C5_OutsideIsSunny ==
    (/\ Decided
     /\ Daytime
     /\ OutsideExtent(tp, high_gt, high_rows, high_cols)
     /\ OutsideExtent(tp, low_gt, low_rows, low_cols))
        => (Last(results) = 0 /\ cells_read = 0)

\* ------------------------------------------------- claims on SpecLine
LineDone == pc = "line_done"
StartInBounds ==
    /\ 0 <= bres_args.x0 /\ bres_args.x0 < bres_args.cols
    /\ 0 <= bres_args.y0 /\ bres_args.y0 < bres_args.rows
PixelInBounds(px) ==
    /\ 0 <= px[1] /\ px[1] < bres_args.cols
    /\ 0 <= px[2] /\ px[2] < bres_args.rows

\* C6: every (col, row) of the line lies in [0, cols) x [0, rows), for
\* every start pixel, azimuth and distance.
C6_LineInBounds ==
    pc \in {"line", "line_done"} =>
        \A k \in 1..Len(bres.line) : PixelInBounds(bres.line[k])

\* a line of several pixels that stopped because the walk left the raster
C6_Witness ==
    /\ LineDone
    /\ Len(bres.line) >= 2
    /\ ~PixelInBounds(<<bres.x0, bres.y0>>)

\* C7: the line has at most max_dist_pixels + 1 elements.
C7_LineLength ==
    pc \in {"line", "line_done"} =>
        Len(bres.line) <= bres_args.max_dist_pixels + 1

\* a line that has exactly max_dist_pixels + 1 elements
C7_Witness ==
    /\ LineDone
    /\ bres_args.max_dist_pixels >= 2
    /\ Len(bres.line) = bres_args.max_dist_pixels + 1

\* a / b rounded to the nearest integer, ties to the even one (b > 0)
RoundDiv(a, b) ==
    LET q == a \div b
        r == a - q * b
    IN  IF 2 * r < b THEN q
        ELSE IF 2 * r > b THEN q + 1
        ELSE IF q % 2 = 0 THEN q ELSE q + 1

\* C8: the endpoint is the start plus the offsets rounded to the nearest
\* integer.
C8_EndpointRounded ==
    pc \in {"line", "line_done"} =>
        /\ bres.x1 = bres_args.x0
              + RoundDiv(bres_args.max_dist_pixels * bres_args.azimuth.sin, 1000)
        /\ bres.y1 = bres_args.y0
              - RoundDiv(bres_args.max_dist_pixels * bres_args.azimuth.cos, 1000)

\* C9: from a start pixel inside the raster the returned line begins with
\* the start pixel; it ends with the endpoint, which occurs nowhere before,
\* or it ends with the pixel in the raster whose successor, the pixel the
\* loop stopped at, is outside the raster.
C9_LineStartAndEnd ==
    (LineDone /\ StartInBounds) =>
        /\ bres.line # <<>>
        /\ bres.line[1] = <<bres_args.x0, bres_args.y0>>
        /\ \A k \in 1..(Len(bres.line) - 1) : bres.line[k] # <<bres.x1, bres.y1>>
        /\ \/ Last(bres.line) = <<bres.x1, bres.y1>>
           \/ /\ ~PixelInBounds(<<bres.x0, bres.y0>>)
              /\ PixelInBounds(Last(bres.line))
              /\ Abs(bres.x0 - Last(bres.line)[1]) <= 1
              /\ Abs(bres.y0 - Last(bres.line)[2]) <= 1

\* a line that ends in the raster at its endpoint, several pixels long
C9_Witness ==
    /\ LineDone
    /\ StartInBounds
    /\ Len(bres.line) >= 3
    /\ Last(bres.line) = <<bres.x1, bres.y1>>

\* ----------------------------------------------- scan distance (Spec)
\* C10: if the point is flagged 1 with scan distance max_dist_m, it is
\* flagged 1 with every larger scan distance.
C10_MonotoneInDistance ==
    (Decided /\ Last(results) = 1) =>
        \A k \in 1..MaxDistPx :
            k * high_res >= max_dist_m =>
                EvalPoint(tp, IntDiv(k * high_res, high_res),
                          IntDiv(k * high_res, low_res),
                          NegInf, 0).flag = 1

\* ------------------------------------------ covered distance (Spec)
HighPx == to_pixel(tp.x, tp.y, high_gt)
HighScanned == InBounds(HighPx, high_rows, high_cols)
EyeLevel == tp.z + EyeOffset

\* the low-res scan of tp without the exclusion of the covered distance
LowUnfiltered ==
    Scan(tp, low_gt, low_rows, low_cols, low_data, low_res, low_max_px, 0)

\* C11: when the high-res raster was scanned with covered distance c, every
\* angle the low-res calc_angle call returns comes from a pixel at a
\* distance strictly greater than c.
C11_CoverageBoundary ==
    (Decided /\ path = "final" /\ HighScanned) =>
        \A k \in 1..Len(angles_low) : angles_low[k].dsq > covered_dist

\* a low-res pixel above the viewer within the covered distance, left out
C11_Witness ==
    /\ Decided
    /\ path = "final"
    /\ HighScanned
    /\ covered_dist > 0
    /\ Len(LowUnfiltered.angles) > Len(angles_low)

\* the square of the distance in metres from `start` to the farthest pixel
\* of the line
FarthestSq(line, start, res) ==
    CHOOSE d \in { PixelDistSq(line[k], <<start.col, start.row>>) * res * res :
                     k \in 1..Len(line) } :
        \A k \in 1..Len(line) :
            PixelDistSq(line[k], <<start.col, start.row>>) * res * res <= d

\* the covered distance the traced high-res line of tp gives
HighCovered ==
    CHOOSE c \in
        { FarthestSq(line, HighPx, high_res) :
            line \in { draw_bresenham_line(HighPx.col, HighPx.row, high_max_px,
                                           tp.solar_pos[2], high_rows,
                                           high_cols) } } : TRUE

\* C12: after the high-res scan of a daytime point the covered distance is
\* the distance from the start pixel to the farthest pixel traced on the
\* high-res raster, on every return path of calc_angle, and 0 when the
\* point is outside the high-res raster.
C12_CoveredDistance ==
    (Decided /\ Daytime) =>
        covered_dist = IF HighScanned THEN HighCovered ELSE 0

\* the only obstacle above the viewer is the start pixel, and the line
\* went on
C12_Witness ==
    /\ Decided
    /\ Daytime
    /\ HighScanned
    /\ high_data[HighPx.row][HighPx.col] > EyeLevel
    /\ angles_high = <<>>
    /\ covered_dist > 0

\* C13: no angle is computed at distance 0: every angle of the high-res and
\* of the low-res scan comes from a pixel at a positive distance.
C13_NoZeroDistance ==
    (Decided /\ Daytime) =>
        /\ \A k \in 1..Len(angles_high) : angles_high[k].dsq > 0
        /\ \A k \in 1..Len(angles_low) : angles_low[k].dsq > 0

\* the start pixel is above the viewer and another pixel gives an angle
C13_Witness ==
    /\ Decided
    /\ Daytime
    /\ HighScanned
    /\ high_data[HighPx.row][HighPx.col] > EyeLevel
    /\ Len(angles_high) > 0

\* ------------------------------------------------ the result list (Spec)
\* the point before p on the trail
PrevTrailPoint(p) == CHOOSE q \in { [p EXCEPT !.x = p.x - 20] } : NextTrailPoint(q) = p

RECURSIVE Back(_, _)
Back(p, n) == IF n = 0 THEN p ELSE Back(PrevTrailPoint(p), n - 1)

\* the i-th point handed to calculate_shadows, tp being the last one handled
PointAt(i) == Back(tp, Len(results) - i)

\* C15: every iteration of the per-point loop, on each of its three paths,
\* appends exactly one flag, 0 or 1, at the end of results and leaves the
\* flags of the earlier points in place; the return changes nothing: one
\* flag per point, in the order of the points.
C15_OneFlagPerPoint ==
    [][ /\ (pc = "loop" /\ pc' = "loop") =>
              /\ Len(results') = Len(results) + 1
              /\ SubSeq(results', 1, Len(results)) = results
              /\ results'[Len(results')] \in {0, 1}
              /\ path' \in {"night", "early", "final"}
        /\ (pc' = "done") => results' = results ]_vars

\* two points were handled, with different flags, and the call returned
C15_Witness ==
    /\ pc = "done"
    /\ Len(results) = 2
    /\ results[1] # results[2]

\* C16: the flag of a point is the flag of the point evaluated on its own,
\* whatever max_angle and covered_dist the points before it left behind.
C16_OrderIndependent ==
    Decided =>
        \A old \in { <<NegInf, 0>>, <<Tan(100, 1), 6400>> } :
            Last(results) =
                EvalPoint(tp, high_max_px, low_max_px, old[1], old[2]).flag

\* a Sunny daytime point handled after a Shady one
C16_Witness ==
    /\ Decided
    /\ Daytime
    /\ results = <<1, 0>>

\* the flags a second call with the same points returns on the rasters as
\* they are now
SecondCall ==
    [i \in 1..Len(results) |->
        EvalPoint(PointAt(i), high_max_px, low_max_px, NegInf, 0).flag]

\* C17: no step of calculate_shadows changes a raster, a geotransform or the
\* point it is handed, and when it returns, a second call with the same
\* points returns the same flags.
C17_Idempotent ==
    /\ [][ /\ UNCHANGED <<high_data, low_data, high_gt, low_gt, high_res,
                           low_res, high_rows, high_cols, low_rows, low_cols>>
            /\ (results # <<>> /\ pc' = "loop") => tp' = NextTrailPoint(tp)
          ]_vars
    /\ [](pc = "done" => SecondCall = results)

\* the call returned Shady for a point because of a raised cell it read
C17_Witness ==
    /\ pc = "done"
    /\ Len(results) = 2
    /\ results[1] = 1
    /\ path \in {"early", "final"}
    /\ TallCount(high_data) > 0
    /\ cells_read > 0

\* ------------------------------------------------- nodata (SpecNodata)
\* the cells of both rasters that hold real heights are not above the eye
RealBelowEye ==
    /\ \A rc \in Cells(high_rows, high_cols) :
          high_data[rc[1]][rc[2]] > NodataVal =>
              high_data[rc[1]][rc[2]] <= EyeLevel
    /\ \A rc \in Cells(low_rows, low_cols) :
          low_data[rc[1]][rc[2]] > NodataVal =>
              low_data[rc[1]][rc[2]] <= EyeLevel

\* C14: no candidate angle comes from a cell holding the nodata marker or
\* less (the height behind an angle is its height difference plus the eye
\* level), and such cells alone never make a point Shady, for every z a
\* trail point can carry.
C14_NodataNeverObstructs ==
    (Decided /\ Daytime) =>
        /\ \A k \in 1..Len(angles_high) : angles_high[k].h + EyeLevel > NodataVal
        /\ \A k \in 1..Len(angles_low) : angles_low[k].h + EyeLevel > NodataVal
        /\ RealBelowEye => Last(results) = 0

\* nodata cells were read for the lowest viewer the trail can carry
C14_Witness ==
    /\ Decided
    /\ Daytime
    /\ tp.z = NodataThreshold
    /\ HighScanned
    /\ cells_read > 1
    /\ \E rc \in Cells(high_rows, high_cols) : high_data[rc[1]][rc[2]] = NodataVal

\* --------------------------------------------------- trail (SpecTrail)
TrailReady == pc = "trail_ready"
IsCenter(k) == trail_points[k].trail_type = "Center"

\* C18: after process_trail and any calls of sample_elevation and
\* calculate_times_with_slope, the solar position of every trail point is
\* the solar position of the point's datetime.
C18_SolarPosNeverStale ==
    TrailReady =>
        \A k \in 1..Len(trail_points) :
            trail_points[k].solar_pos = calc_solar_pos(trail_points[k].datetime)

\* C19: the datetimes of the Center points do not decrease along the trail.
C19_CenterTimesMonotone ==
    TrailReady =>
        \A j, k \in 1..Len(trail_points) :
            (j < k /\ IsCenter(j) /\ IsCenter(k)) =>
                trail_points[j].datetime <= trail_points[k].datetime

\* C20: every Left and every Right point carries the datetime and the solar
\* position of the Center point it was made at.
C20_SidesFollowCenter ==
    TrailReady =>
        \A k \in 1..Len(trail_points) :
            ~IsCenter(k) =>
                /\ trail_points[k].datetime =
                      trail_points[trail_points[k].pair + 1].datetime
                /\ trail_points[k].solar_pos =
                      trail_points[trail_points[k].pair + 1].solar_pos

\* ------------------------------------------- calc_solar_pos (SpecSolar)
\* C21: with the backend present every call tries it first; a call whose
\* backend call fails returns the pair of the built-in formula, a call
\* whose backend call succeeds returns the backend's pair without using the
\* formula, and no call raises.
C21_BackendFirstThenFormula ==
    \A i \in 1..Len(solar_calls) :
        LET call == solar_calls[i]
        IN  /\ call.raised = "none"
            /\ HAS_PVLIB => call.backend
            /\ (HAS_PVLIB /\ call.outcome # "ok") =>
                  (call.formula /\ call.returned = calc_solar_pos(call.dt))
            /\ (HAS_PVLIB /\ call.outcome = "ok") =>
                  (~call.formula /\ call.returned = PvlibPos(call.dt))

C21_Witness ==
    /\ HAS_PVLIB
    /\ \E i, j \in 1..Len(solar_calls) :
          /\ solar_calls[i].outcome = "KeyError"
          /\ solar_calls[i].returned = calc_solar_pos(solar_calls[i].dt)
          /\ solar_calls[j].outcome = "ok"
          /\ solar_calls[j].returned = PvlibPos(solar_calls[j].dt)

\* C23: all calc_solar_pos calls of a run use the same strategy, and no
\* call goes from the backend to the formula.
C23_OneStrategyPerRun ==
    /\ \A i, j \in 1..Len(solar_calls) :
          solar_calls[i].formula = solar_calls[j].formula
    /\ \A i \in 1..Len(solar_calls) :
          ~(solar_calls[i].backend /\ solar_calls[i].formula)

\* ------------------------------------------- malformed rasters (SpecMalformed)
Malformed(gt, rows, cols) ==
    gt = DefaultGT \/ gt[2] = 0 \/ rows <= 0 \/ cols <= 0

\* C22: with a malformed raster (pixel width missing or zero, no rows or no
\* columns) calculate_shadows evaluates no point and does not fail with an
\* arithmetic error.
C22_MalformedRejected ==
    (Malformed(high_gt, high_rows, high_cols)
        \/ Malformed(low_gt, low_rows, low_cols)) =>
            /\ pc # "ZeroDivisionError"
            /\ pc # "loop"
            /\ pc # "done"
            /\ results = <<>>

\* ------------------------------------------------ line walk (FairSpecLine)
\* C25: draw_bresenham_line returns; an iteration that does not break
\* appends the current pixel and moves it by one step in at least one
\* coordinate, never away from the endpoint; the current pixel is never
\* past the endpoint; consecutive pixels of the line are distinct and
\* 8-adjacent; and the loop breaks at the endpoint or outside the raster.
C25_WalkTerminates ==
    /\ [][ (bres.running /\ bres'.running) =>
              /\ bres'.line = Append(bres.line, <<bres.x0, bres.y0>>)
              /\ bres'.x0 - bres.x0 \in { 0, bres.sx }
              /\ bres'.y0 - bres.y0 \in { 0, bres.sy }
              /\ <<bres'.x0, bres'.y0>> # <<bres.x0, bres.y0>>
              /\ Abs(bres.x1 - bres'.x0) <= Abs(bres.x1 - bres.x0)
              /\ Abs(bres.y1 - bres'.y0) <= Abs(bres.y1 - bres.y0) ]_vars
    /\ [] /\ (bres.x1 - bres.x0) * bres.sx >= 0
          /\ (bres.y1 - bres.y0) * bres.sy >= 0
          /\ \A i \in 1..(Len(bres.line) - 1) :
                /\ Abs(bres.line[i + 1][1] - bres.line[i][1]) <= 1
                /\ Abs(bres.line[i + 1][2] - bres.line[i][2]) <= 1
                /\ bres.line[i + 1] # bres.line[i]
          /\ ~bres.running =>
                \/ ~PixelInBounds(<<bres.x0, bres.y0>>)
                \/ /\ bres.line # <<>>
                   /\ bres.line[Len(bres.line)] = <<bres.x1, bres.y1>>
                   /\ <<bres.x0, bres.y0>> = <<bres.x1, bres.y1>>
    /\ <>(pc = "line_done")

\* a walk of two steps, one of them diagonal, that ends on the endpoint
C25_Witness ==
    /\ pc = "line_done"
    /\ Len(bres.line) = 3
    /\ bres.line[3] = <<bres.x1, bres.y1>>
    /\ bres.dx = 2
    /\ bres.dy = 1

\* ------------------------------------------------ break (SpecTrail)
\* the trail with its times recomputed as if no break had been accepted
WithoutBreak ==
    calculate_times_with_slope(trail_points, start_time, buffered, speed,
                               adjust_for_slope, -1, 0)

\* C26: after a break was accepted at Center index b and the times were
\* recomputed by calculate_times_with_slope, every Center point with index
\* >= b arrives break_duration later than without the break, and every
\* Center point with index < b arrives as without it.
C26_BreakShiftsFromIndex ==
    (TrailReady /\ adjust_for_slope /\ calls > 0 /\ break_index >= 0) =>
        \A k \in 1..Len(trail_points) :
            IsCenter(k) =>
                trail_points[k].datetime =
                    WithoutBreak[k].datetime
                        + (IF k - 1 >= break_index THEN break_duration ELSE 0)

\* ------------------------------------------------ downloader (SpecDownload)
\* C24: download_dual_quality_mns returns True only if the high-resolution
\* read_tif and the low-resolution read_tif both returned True.
C24_TrueOnlyIfBoth ==
    (pc = "dl_done" /\ returned = "True") => high_result = "True"

\* C27: once isCanceled() has answered True no request is given to the
\* network manager, download_dual_quality_mns returns False, and no
\* temporary directory is left behind.
C27_NothingAfterCancel ==
    /\ late_requests = 0
    /\ (pc = "dl_done" /\ cancel_seen) => returned = "False"
    /\ pc # "dl_tile" => ~temp_dir

====
